---- MODULE Spec2Model ----
(***************************************************************************)
(* Product catalog REST service (service/routes.py).                       *)
(*                                                                         *)
(* The handlers of routes.py are modelled as operators over the product    *)
(* store; one action per endpoint applies its handler to a request drawn   *)
(* from small sets and records the request, the response and the handler's *)
(* local `product` object.  Product, Category and the store                *)
(* (service/models.py) are not part of the available sources: they are     *)
(* modelled from the specification's description of the Product Store.     *)
(***************************************************************************)
EXTENDS Integers, Sequences, FiniteSets, TLC

\* Largest number of products ever created in a run (caps the id sequence).
MaxProducts == 2

----------------------------------------------------------------------------
(* HTTP status codes (service.common.status) *)

HTTP_200_OK == 200
HTTP_201_CREATED == 201
HTTP_204_NO_CONTENT == 204
HTTP_400_BAD_REQUEST == 400
HTTP_404_NOT_FOUND == 404
HTTP_415_UNSUPPORTED_MEDIA_TYPE == 415
HTTP_500_INTERNAL_SERVER_ERROR == 500

----------------------------------------------------------------------------
(* Request vocabulary *)

\* request.args.get(...) returning None / a header that is not present
NoArg == "<none>"
\* a key that is absent from the JSON body
Missing == "<missing>"

JSON == "application/json"
ContentTypes == {NoArg, JSON, "text/plain", "application/json; charset=utf-8"}

PathIds == 1..(MaxProducts + 1)

BodyNames == {"Widget", "Bolt"}
BodyCategories == {"FOOD", "TOOL"}

\* Bodies that deserialize: four products in which every pair of values of
\* name, available and category occurs
ValidBodies ==
    {b \in [id : {0}, name : BodyNames, description : {"d"}, price : {"1.5"},
            available : BOOLEAN, category : BodyCategories] :
        (b.name = "Widget") <=> (b.available <=> (b.category = "FOOD"))}

BodyA ==
    [id |-> 0, name |-> "Widget", description |-> "d", price |-> "1.5",
     available |-> TRUE, category |-> "FOOD"]

BodyB ==
    [id |-> 0, name |-> "Bolt", description |-> "d", price |-> "1.5",
     available |-> TRUE, category |-> "TOOL"]

\* A body that carries an id of its own
WithId(b) == [b EXCEPT !.id = 7]

\* Bodies that fail to deserialize: a missing required field, an invalid value
InvalidBodies ==
    UNION {{[b EXCEPT !.name = Missing], [b EXCEPT !.price = "abc"],
            [b EXCEPT !.category = "zzz"]} : b \in {BodyA, BodyB}}

Bodies == ValidBodies \cup {WithId(BodyA), WithId(BodyB)} \cup InvalidBodies

\* The bodies sent with a content type other than application/json
OtherBodies == {BodyA, [BodyB EXCEPT !.price = "abc"]}

BodiesFor(ct) == IF ct = JSON THEN Bodies ELSE OtherBodies

NoBody ==
    [id |-> 0, name |-> Missing, description |-> "d", price |-> "abc",
     available |-> FALSE, category |-> "zzz"]

ArgNames == {NoArg, "", "Widget", "widget"}
ArgCategories == {NoArg, "", "food", "zzz"}
ArgAvailables == {NoArg, "", "TRUE", "yes", "1", "maybe"}

\* Python truthiness of an optional string: None and "" are falsy
Truthy(s) == s # NoArg /\ s # ""

\* str.upper() on the category arguments
Upper(s) ==
    CASE s = "food" -> "FOOD"
      [] s = "zzz" -> "ZZZ"
      [] OTHER -> s

\* str.lower() on the available arguments
Lower(s) ==
    CASE s = "TRUE" -> "true"
      [] OTHER -> s

----------------------------------------------------------------------------
(* service/models.py: Category and Product, from the specification *)

CategoryNames == {"FOOD", "TOOL"}

\* The enumeration member of a tag name (a member is modelled by its value)
CategoryMember(n) == CASE n = "FOOD" -> 1 [] n = "TOOL" -> 2

CategoryName(v) == CHOOSE n \in CategoryNames : CategoryMember(n) = v

\* getattr(Category, name, None): <<member>>, or <<>> for None
CategoryLookup(n) == IF n \in CategoryNames THEN <<CategoryMember(n)>> ELSE <<>>

\* Decimal(price): the price in tenths; <<>> when it does not parse
ParsePrice(t) == IF t = "1.5" THEN <<15>> ELSE <<>>

FormatPrice(p) == CHOOSE t \in {"1.5", "abc"} : ParsePrice(t) = <<p>>

\* Product(): no attribute set yet, id None
NewProduct == [id |-> 0]

Assign(inst, k, v) == (k :> v) @@ inst

\* Product.deserialize(data): assigns the attributes in order and stops at the
\* first failure; a missing required key is a KeyError, an invalid value a
\* ValueError.  The id of the body is never read.
Deserialize(inst, data) ==
    IF data.name = Missing
    THEN [error |-> "KeyError", product |-> inst]
    ELSE LET p1 == Assign(Assign(inst, "name", data.name),
                          "description", data.description)
         IN IF ParsePrice(data.price) = <<>>
            THEN [error |-> "ValueError", product |-> p1]
            ELSE LET p2 == Assign(Assign(p1, "price", ParsePrice(data.price)[1]),
                                  "available", data.available)
                 IN IF CategoryLookup(data.category) = <<>>
                    THEN [error |-> "ValueError", product |-> p2]
                    ELSE [error |-> "none",
                          product |-> Assign(p2, "category",
                                             CategoryLookup(data.category)[1])]

\* Product.serialize(): the wire representation
Serialize(p) ==
    [id |-> p.id, name |-> p.name, description |-> p.description,
     price |-> FormatPrice(p.price), available |-> p.available,
     category |-> CategoryName(p.category)]

----------------------------------------------------------------------------
(* The Product Store: a map from id to persisted product, and its id sequence *)

RECURSIVE SeqOfIds(_, _)
\* the products with an id in S, by ascending id
SeqOfIds(d, S) ==
    IF S = {} THEN <<>>
    ELSE LET m == CHOOSE x \in S : \A y \in S : x <= y
         IN <<d[m]>> \o SeqOfIds(d, S \ {m})

\* Product.all()
All(d) == SeqOfIds(d, DOMAIN d)

\* Product.find(id): a transient copy of the stored product, or None
Find(d, i) == IF i \in DOMAIN d THEN <<d[i]>> ELSE <<>>

\* Product.find_by_name(name): case-sensitive exact match
FindByName(d, n) == SeqOfIds(d, {i \in DOMAIN d : d[i].name = n})

\* product.create(): the store assigns the next id of its sequence
StoreCreate(d, last, p) ==
    LET q == [p EXCEPT !.id = last + 1]
    IN [db |-> (q.id :> q) @@ d, next_id |-> last + 1, product |-> q]

\* product.update(): persists the instance under its id
StoreUpdate(d, p) == (p.id :> p) @@ d

\* product.delete()
StoreDelete(d, p) == [i \in DOMAIN d \ {p.id} |-> d[i]]

----------------------------------------------------------------------------
(* service/routes.py *)

Response(st, b, loc) == [status |-> st, body |-> b, location |-> loc]

\* abort(status, message): the error response of an HTTPException
Abort(st) == Response(st, <<>>, 0)

Result(d, last, r, p) == [db |-> d, next_id |-> last, resp |-> r, product |-> p]

\* Variant: only a missing header is rejected
check_content_type_missing_only(content_type, header) ==
    IF header = NoArg THEN <<HTTP_415_UNSUPPORTED_MEDIA_TYPE>> ELSE <<>>

\* check_content_type(content_type): <<>> when the guard passes, otherwise the
\* status it aborts with
check_content_type(content_type, header) ==
    IF header = NoArg
    THEN <<HTTP_415_UNSUPPORTED_MEDIA_TYPE>>
    ELSE IF header # content_type
         THEN <<HTTP_415_UNSUPPORTED_MEDIA_TYPE>>
         ELSE <<>>

\* url_for("get_products", product_id=i): the read endpoint, named by its id
url_for_get_products(i) == i

\* Variant: the product is stored under the id its body carries, when it has one
create_products_body_id(d, last, rq) ==
    IF check_content_type(JSON, rq.ctype) # <<>>
    THEN Result(d, last, Abort(check_content_type(JSON, rq.ctype)[1]), <<>>)
    ELSE LET des == Deserialize(NewProduct, rq.body)
         IN IF des.error # "none"
            THEN Result(d, last, Abort(HTTP_400_BAD_REQUEST), <<des.product>>)
            ELSE LET c == StoreCreate(d, last, des.product)
                     q == [c.product EXCEPT !.id = rq.body.id]
                 IN IF rq.body.id = 0
                    THEN Result(c.db, c.next_id,
                                Response(HTTP_201_CREATED, <<Serialize(c.product)>>,
                                         url_for_get_products(c.product.id)),
                                <<c.product>>)
                    ELSE Result(StoreUpdate(d, q), last,
                                Response(HTTP_201_CREATED, <<Serialize(q)>>,
                                         url_for_get_products(q.id)),
                                <<q>>)

\* Variant: the available flag of the body is not taken over
create_products_drop_available(d, last, rq) ==
    IF check_content_type(JSON, rq.ctype) # <<>>
    THEN Result(d, last, Abort(check_content_type(JSON, rq.ctype)[1]), <<>>)
    ELSE LET des == Deserialize(NewProduct, rq.body)
         IN IF des.error # "none"
            THEN Result(d, last, Abort(HTTP_400_BAD_REQUEST), <<des.product>>)
            ELSE LET c == StoreCreate(d, last,
                                      [des.product EXCEPT !.available = TRUE])
                 IN Result(c.db, c.next_id,
                           Response(HTTP_201_CREATED, <<Serialize(c.product)>>,
                                    url_for_get_products(c.product.id)),
                           <<c.product>>)

\* POST /products.  A body that fails to deserialize is answered 400 (the
\* error handlers are not part of routes.py; the status is the specification's)
create_products(d, last, rq) ==
    IF check_content_type(JSON, rq.ctype) # <<>>
    THEN Result(d, last, Abort(check_content_type(JSON, rq.ctype)[1]), <<>>)
    ELSE LET des == Deserialize(NewProduct, rq.body)
         IN IF des.error # "none"
            THEN Result(d, last, Abort(HTTP_400_BAD_REQUEST), <<des.product>>)
            ELSE LET c == StoreCreate(d, last, des.product)
                 IN Result(c.db, c.next_id,
                           Response(HTTP_201_CREATED, <<Serialize(c.product)>>,
                                    url_for_get_products(c.product.id)),
                           <<c.product>>)

\* [x for x in products if x.category == v]
FilterCategory(products, v) == SelectSeq(products, LAMBDA x : x.category = v)

\* [x for x in products if x.available == v]
FilterAvailable(products, v) == SelectSeq(products, LAMBDA x : x.available = v)

\* Variant: the tokens are compared without lower-casing
available_value_case_sensitive(available) == available \in {"true", "yes", "1"}

\* available.lower() in ["true", "yes", "1"]
available_value(available) == Lower(available) \in {"true", "yes", "1"}

\* products after `if name:`
after_name(d, rq) == IF Truthy(rq.name) THEN FindByName(d, rq.name) ELSE All(d)

\* getattr(Category, category.upper(), None)
category_value(rq) == CategoryLookup(Upper(rq.category))

\* `if category:` reaches abort(400)
category_aborts(rq) == Truthy(rq.category) /\ category_value(rq) = <<>>

\* Variant: the category filter starts again from all the products
after_category_from_all(d, rq) ==
    IF Truthy(rq.category)
    THEN FilterCategory(All(d), category_value(rq)[1])
    ELSE after_name(d, rq)

\* products after `if category:`, when it does not abort
after_category(d, rq) ==
    IF Truthy(rq.category)
    THEN FilterCategory(after_name(d, rq), category_value(rq)[1])
    ELSE after_name(d, rq)

\* products after `if available:`
after_available(d, rq) ==
    IF Truthy(rq.available)
    THEN FilterAvailable(after_category(d, rq), available_value(rq.available))
    ELSE after_category(d, rq)

\* The body of the try block of list_products: either the status an abort()
\* raised, or the products to return
list_products_try(d, rq) ==
    IF category_aborts(rq)
    THEN [raised |-> <<HTTP_400_BAD_REQUEST>>, products |-> <<>>]
    ELSE [raised |-> <<>>, products |-> after_available(d, rq)]

RECURSIVE SerializeAll(_)
\* [product.serialize() for product in products]
SerializeAll(ps) ==
    IF ps = <<>> THEN <<>> ELSE <<Serialize(Head(ps))>> \o SerializeAll(Tail(ps))

\* GET /products: `except Exception` also catches the HTTPException that
\* abort() raises inside the try block, and aborts again with 500
list_products(d, rq) ==
    LET t == list_products_try(d, rq)
    IN IF t.raised # <<>>
       THEN Abort(HTTP_500_INTERNAL_SERVER_ERROR)
       ELSE Response(HTTP_200_OK, SerializeAll(t.products), 0)

\* GET /products/<id>
get_products(d, product_id) ==
    LET product == Find(d, product_id)
    IN IF product = <<>>
       THEN Abort(HTTP_404_NOT_FOUND)
       ELSE Response(HTTP_200_OK, <<Serialize(product[1])>>, 0)

\* The three outcomes of PUT /products/<id> that precede the update itself
update_products_guard(d, last, rq) ==
    IF check_content_type(JSON, rq.ctype) # <<>>
    THEN <<Result(d, last, Abort(check_content_type(JSON, rq.ctype)[1]), <<>>)>>
    ELSE IF Find(d, rq.id) = <<>>
         THEN <<Result(d, last, Abort(HTTP_404_NOT_FOUND), <<>>)>>
         ELSE <<>>

\* Variant: the id is not forced to the path value, the body's id is kept
update_products_body_id(d, last, rq) ==
    IF update_products_guard(d, last, rq) # <<>>
    THEN update_products_guard(d, last, rq)[1]
    ELSE LET des == Deserialize(Find(d, rq.id)[1], rq.body)
             p == IF rq.body.id # 0
                  THEN [des.product EXCEPT !.id = rq.body.id]
                  ELSE des.product
         IN IF des.error # "none"
            THEN Result(d, last, Abort(HTTP_400_BAD_REQUEST), <<des.product>>)
            ELSE Result(StoreUpdate(d, p), last,
                        Response(HTTP_200_OK, <<Serialize(p)>>, 0), <<p>>)

\* Variant: a missing product is created instead of answered 404
update_products_upsert(d, last, rq) ==
    IF check_content_type(JSON, rq.ctype) # <<>>
    THEN Result(d, last, Abort(check_content_type(JSON, rq.ctype)[1]), <<>>)
    ELSE LET found == Find(d, rq.id)
             des == Deserialize(IF found = <<>> THEN NewProduct ELSE found[1],
                                rq.body)
             p == [des.product EXCEPT !.id = rq.id]
         IN IF des.error # "none"
            THEN Result(d, last, Abort(HTTP_400_BAD_REQUEST), <<des.product>>)
            ELSE Result(StoreUpdate(d, p), last,
                        Response(HTTP_200_OK, <<Serialize(p)>>, 0), <<p>>)

\* Variant: the instance is persisted although deserializing it failed
update_products_persist_partial(d, last, rq) ==
    IF update_products_guard(d, last, rq) # <<>>
    THEN update_products_guard(d, last, rq)[1]
    ELSE LET des == Deserialize(Find(d, rq.id)[1], rq.body)
             p == [des.product EXCEPT !.id = rq.id]
         IN IF des.error # "none"
            THEN Result(StoreUpdate(d, p), last, Abort(HTTP_400_BAD_REQUEST),
                        <<des.product>>)
            ELSE Result(StoreUpdate(d, p), last,
                        Response(HTTP_200_OK, <<Serialize(p)>>, 0), <<p>>)

\* PUT /products/<id>: the body is deserialized onto the product that
\* Product.find returned
update_products(d, last, rq) ==
    IF update_products_guard(d, last, rq) # <<>>
    THEN update_products_guard(d, last, rq)[1]
    ELSE LET des == Deserialize(Find(d, rq.id)[1], rq.body)
             p == [des.product EXCEPT !.id = rq.id]
         IN IF des.error = "KeyError"
            THEN Result(d, last, Abort(HTTP_400_BAD_REQUEST), <<des.product>>)
            ELSE IF des.error = "ValueError"
                 THEN Result(d, last, Abort(HTTP_400_BAD_REQUEST),
                             <<des.product>>)
                 ELSE Result(StoreUpdate(d, p), last,
                             Response(HTTP_200_OK, <<Serialize(p)>>, 0), <<p>>)

\* Variant: deleting a product that does not exist is answered 404
delete_products_strict(d, last, rq) ==
    LET product == Find(d, rq.id)
    IN IF product # <<>>
       THEN Result(StoreDelete(d, product[1]), last,
                   Response(HTTP_204_NO_CONTENT, <<>>, 0), product)
       ELSE Result(d, last, Abort(HTTP_404_NOT_FOUND), product)

\* DELETE /products/<id>
delete_products(d, last, rq) ==
    LET product == Find(d, rq.id)
    IN Result(IF product # <<>> THEN StoreDelete(d, product[1]) ELSE d,
              last, Response(HTTP_204_NO_CONTENT, <<>>, 0), product)

----------------------------------------------------------------------------
(* The service as a state machine: one step per request *)

VARIABLES
    db,         \* the Product Store: id -> persisted product
    next_id,    \* the last id the store assigned
    req,        \* the last request
    resp,       \* its response
    product,    \* the handler's local `product` when it returned (<<>>: None)
    issued      \* history: the ids that 201 responses have returned so far

vars == <<db, next_id, req, resp, product, issued>>

Request(op, i, ct, b, n, c, a) ==
    [op |-> op, id |-> i, ctype |-> ct, body |-> b,
     name |-> n, category |-> c, available |-> a]

Init ==
    /\ db = <<>>
    /\ next_id = 0
    /\ req = Request("START", 0, NoArg, NoBody, NoArg, NoArg, NoArg)
    /\ resp = Response(0, <<>>, 0)
    /\ product = <<>>
    /\ issued = {}

Apply(rq, out) ==
    /\ req' = rq
    /\ db' = out.db
    /\ next_id' = out.next_id
    /\ resp' = out.resp
    /\ product' = out.product
    /\ issued' = IF out.resp.status = HTTP_201_CREATED
                 THEN issued \cup {out.resp.body[1].id}
                 ELSE issued

Create ==
    \E ct \in ContentTypes : \E b \in BodiesFor(ct) :
        LET rq == Request("POST", 0, ct, b, NoArg, NoArg, NoArg)
            out == create_products(db, next_id, rq)
        IN /\ next_id < MaxProducts \/ out.resp.status # HTTP_201_CREATED
           /\ Apply(rq, out)

List ==
    \E n \in ArgNames, c \in ArgCategories, a \in ArgAvailables :
        LET rq == Request("LIST", 0, NoArg, NoBody, n, c, a)
        IN /\ rq.op = "LIST"
           /\ Apply(rq, Result(db, next_id, list_products(db, rq), <<>>))

Read ==
    \E i \in PathIds :
        LET rq == Request("GET", i, NoArg, NoBody, NoArg, NoArg, NoArg)
        IN /\ rq.op = "GET"
           /\ Apply(rq, Result(db, next_id, get_products(db, i), Find(db, i)))

Update ==
    \E i \in PathIds, ct \in ContentTypes : \E b \in BodiesFor(ct) :
        LET rq == Request("PUT", i, ct, b, NoArg, NoArg, NoArg)
        IN /\ rq.op = "PUT"
           /\ Apply(rq, update_products(db, next_id, rq))

Delete ==
    \E i \in PathIds :
        LET rq == Request("DELETE", i, NoArg, NoBody, NoArg, NoArg, NoArg)
        IN /\ rq.op = "DELETE"
           /\ Apply(rq, delete_products(db, next_id, rq))

Next == Create \/ List \/ Read \/ Update \/ Delete

Spec == Init /\ [][Next]_vars

----------------------------------------------------------------------------
(* Properties *)

\* The representations a response carries, as a set
BodySet(r) == {r.body[k] : k \in 1..Len(r.body)}

\* The representation of the submitted fields under id i
Submitted(b, i) == [b EXCEPT !.id = i]

\* A query parameter that is part of the request, whatever its value
Present(s) == s # NoArg

NamesATag(c) == Upper(c) \in CategoryNames

UniqueIds(d) == \A i, j \in DOMAIN d : d[i].id = d[j].id => i = j

\* C1: a LIST request whose category parameter names a tag (in any case) is
\* answered 200 with products of that category only, and with exactly the
\* products of the name stage that have that category when no available
\* parameter follows; a category parameter that names no tag is answered 400.
C1_CategoryFilter ==
    (req.op = "LIST" /\ Truthy(req.category)) =>
        IF NamesATag(req.category)
        THEN /\ resp.status = HTTP_200_OK
             /\ \A w \in BodySet(resp) : w.category = Upper(req.category)
             /\ ~Truthy(req.available) =>
                    resp.body = SerializeAll(FilterCategory(after_name(db, req),
                                    CategoryMember(Upper(req.category))))
        ELSE resp.status = HTTP_400_BAD_REQUEST

\* C2: every 201 response carries a positive id that no earlier 201 response
\* carried (deleted products included), its Location names the read endpoint
\* of that id, which returns the created product, and no two stored products
\* share an id.
C2_FreshIds ==
    [][(req'.op = "POST" /\ resp'.status = HTTP_201_CREATED) =>
          LET id == resp'.body[1].id
          IN /\ id \in Nat \ {0}
             /\ id \notin issued
             /\ resp'.location = url_for_get_products(id)
             /\ get_products(db', resp'.location)
                    = Response(HTTP_200_OK, resp'.body, 0)
             /\ UniqueIds(db')]_vars

\* C2 witness: a create after a delete, so that an issued id is no longer stored
C2_Witness ==
    /\ req.op = "POST" /\ resp.status = HTTP_201_CREATED
    /\ Cardinality(issued) >= 2
    /\ issued # DOMAIN db

\* C3: right after a 201, reading the returned id answers 200 with the
\* submitted name, description, price, available and category and that id.
C3_ReadAfterCreate ==
    (req.op = "POST" /\ resp.status = HTTP_201_CREATED) =>
        LET id == resp.body[1].id
            g == get_products(db, id)
        IN /\ g.status = HTTP_200_OK
           /\ Len(g.body) = 1
           /\ g.body[1].id = id
           /\ g.body[1].name = req.body.name
           /\ g.body[1].description = req.body.description
           /\ g.body[1].price = req.body.price
           /\ g.body[1].available = req.body.available
           /\ g.body[1].category = req.body.category

\* C3 witness: a second product, unavailable, has just been created
C3_Witness ==
    /\ req.op = "POST" /\ resp.status = HTTP_201_CREATED
    /\ ~req.body.available
    /\ Cardinality(DOMAIN db) = 2

\* C4: every DELETE is answered 204 with an empty body; afterwards the id is
\* not stored and reading it answers 404, every other product is as before,
\* and deleting the same id again answers 204 and changes nothing.
C4_DeleteIdempotent ==
    [][req'.op = "DELETE" =>
          LET again == delete_products(db', next_id', req')
          IN /\ resp' = Response(HTTP_204_NO_CONTENT, <<>>, 0)
             /\ req'.id \notin DOMAIN db'
             /\ get_products(db', req'.id).status = HTTP_404_NOT_FOUND
             /\ DOMAIN db' = DOMAIN db \ {req'.id}
             /\ \A i \in DOMAIN db' : db'[i] = db[i]
             /\ next_id' = next_id
             /\ again.resp = Response(HTTP_204_NO_CONTENT, <<>>, 0)
             /\ again.db = db'
             /\ again.next_id = next_id']_vars

\* C4 witness: a stored product was deleted and another one is still stored
C4_Witness ==
    /\ req.op = "DELETE" /\ resp.status = HTTP_204_NO_CONTENT
    /\ product # <<>>
    /\ DOMAIN db # {}

\* C5: a PUT answered 200 leaves the product under the path id with the
\* body's field values, whatever id the body carries; the response carries the
\* path id, the stored ids are the same and no other product changes.
C5_UpdateKeepsId ==
    [][(req'.op = "PUT" /\ resp'.status = HTTP_200_OK) =>
          /\ req'.id \in DOMAIN db
          /\ resp'.body[1].id = req'.id
          /\ DOMAIN db' = DOMAIN db
          /\ db'[req'.id].id = req'.id
          /\ Serialize(db'[req'.id]) = Submitted(req'.body, req'.id)
          /\ resp'.body = <<Serialize(db'[req'.id])>>
          /\ \A i \in DOMAIN db \ {req'.id} : db'[i] = db[i]
          /\ next_id' = next_id]_vars

\* C5 witness: an update whose body carries another id, with two products stored
C5_Witness ==
    /\ req.op = "PUT" /\ resp.status = HTTP_200_OK
    /\ req.body.id # 0 /\ req.body.id # req.id
    /\ Cardinality(DOMAIN db) = 2

\* C6: a POST or PUT whose Content-Type is absent or differs from
\* application/json is answered 415 whatever the body; neither the store is
\* consulted nor the body deserialized (the handler holds no product), and the
\* store is unchanged.
C6_ContentTypeGuard ==
    [][(req'.op \in {"POST", "PUT"} /\ req'.ctype # JSON) =>
          /\ resp' = Response(HTTP_415_UNSUPPORTED_MEDIA_TYPE, <<>>, 0)
          /\ product' = <<>>
          /\ db' = db
          /\ next_id' = next_id]_vars

\* C6 witness: a PUT of a body that does not deserialize, to an id that is not
\* stored, with a content type that only starts with application/json
C6_Witness ==
    /\ req.op = "PUT" /\ resp.status = HTTP_415_UNSUPPORTED_MEDIA_TYPE
    /\ req.ctype = "application/json; charset=utf-8"
    /\ req.body \in InvalidBodies
    /\ req.id \notin DOMAIN db

\* C7 as stated: whenever a LIST request has an available parameter (and its
\* category stage does not abort), the answer is 200 with exactly the products
\* of the category stage whose flag equals the parsed value, the value being
\* true exactly for the lower-cased tokens "true", "yes", "1".
C7_AvailableAnyValue ==
    (req.op = "LIST" /\ Present(req.available) /\ ~category_aborts(req)) =>
        /\ resp.status = HTTP_200_OK
        /\ resp.body = SerializeAll(FilterAvailable(after_category(db, req),
                           Lower(req.available) \in {"true", "yes", "1"}))

\* C7 amended: the same for every non-empty value of the available parameter;
\* an empty value is treated as an absent parameter and filters nothing.
C7_AvailableNonEmpty ==
    (req.op = "LIST" /\ Present(req.available) /\ ~category_aborts(req)) =>
        /\ resp.status = HTTP_200_OK
        /\ resp.body =
              IF req.available = ""
              THEN SerializeAll(after_category(db, req))
              ELSE SerializeAll(FilterAvailable(after_category(db, req),
                       Lower(req.available) \in {"true", "yes", "1"}))

\* C7 witness: available=maybe returned some, but not all, of the products
C7_Witness ==
    /\ req.op = "LIST" /\ req.available = "maybe"
    /\ resp.status = HTTP_200_OK
    /\ Len(resp.body) >= 1
    /\ Len(resp.body) < Len(after_category(db, req))

\* The stored products that match the parameters of a LIST request, byName,
\* byCategory and byAvailable telling which parameters take part
Selected(d, rq, byName, byCategory, byAvailable) ==
    {Serialize(d[i]) : i \in
        {j \in DOMAIN d :
            /\ byName => d[j].name = rq.name
            /\ byCategory => d[j].category = CategoryMember(Upper(rq.category))
            /\ byAvailable =>
                   d[j].available = (Lower(rq.available) \in {"true", "yes", "1"})}}

\* C8 as stated: for every combination of the three parameters (the category,
\* when given, naming a tag) the answer is 200 with exactly the stored
\* products that match every parameter that is part of the request.
C8_IntersectionPresent ==
    (req.op = "LIST" /\ (Present(req.category) => NamesATag(req.category))) =>
        /\ resp.status = HTTP_200_OK
        /\ BodySet(resp) = Selected(db, req, Present(req.name),
                                 Present(req.category), Present(req.available))
        /\ Len(resp.body) = Cardinality(BodySet(resp))

\* C8 amended: the same with the parameters that have a non-empty value; a
\* parameter with an empty value is treated as absent.
C8_IntersectionNonEmpty ==
    (req.op = "LIST" /\ (Truthy(req.category) => NamesATag(req.category))) =>
        /\ resp.status = HTTP_200_OK
        /\ BodySet(resp) = Selected(db, req, Truthy(req.name),
                                 Truthy(req.category), Truthy(req.available))
        /\ Len(resp.body) = Cardinality(BodySet(resp))

\* C8 witness: name and available together return less than name alone
C8_Witness ==
    /\ req.op = "LIST" /\ req.name = "Widget" /\ req.available = "TRUE"
    /\ resp.status = HTTP_200_OK
    /\ Len(resp.body) = 1
    /\ Len(FindByName(db, "Widget")) = 2

\* C9: a GET, or a PUT with Content-Type application/json, on an id that is
\* not stored is answered 404 and leaves the store as it was.
C9_NotFound ==
    [][(/\ req'.op \in {"GET", "PUT"}
        /\ req'.op = "PUT" => req'.ctype = JSON
        /\ req'.id \notin DOMAIN db) =>
          /\ resp' = Response(HTTP_404_NOT_FOUND, <<>>, 0)
          /\ db' = db
          /\ next_id' = next_id]_vars

\* C9 witness: a PUT of a valid body to an id that is not stored, others being
C9_Witness ==
    /\ req.op = "PUT" /\ resp.status = HTTP_404_NOT_FOUND
    /\ req.body \in ValidBodies
    /\ DOMAIN db # {}

\* C10 as stated: a PUT on a stored product whose body does not deserialize is
\* answered 400, the store is unchanged, and the instance the body was
\* deserialized onto was a fresh one (it has no id).
C10_FreshInstance ==
    [][(/\ req'.op = "PUT" /\ req'.ctype = JSON
        /\ req'.id \in DOMAIN db
        /\ req'.body \in InvalidBodies) =>
          /\ resp' = Response(HTTP_400_BAD_REQUEST, <<>>, 0)
          /\ db' = db
          /\ Len(product') = 1
          /\ product'[1].id = NewProduct.id]_vars

\* C10 amended: such a PUT is answered 400 and the store is unchanged; the
\* body is deserialized onto the instance the lookup returned (it has the path
\* id and keeps the stored category), which is not persisted.
C10_StoreUnchanged ==
    [][(/\ req'.op = "PUT" /\ req'.ctype = JSON
        /\ req'.id \in DOMAIN db
        /\ req'.body \in InvalidBodies) =>
          /\ resp' = Response(HTTP_400_BAD_REQUEST, <<>>, 0)
          /\ db' = db
          /\ next_id' = next_id
          /\ Len(product') = 1
          /\ product'[1].id = req'.id
          /\ product'[1].category = db[req'.id].category]_vars

\* C10 witness: the handler's instance took the body's name before the
\* failure, and the stored product still has its own
C10_Witness ==
    /\ req.op = "PUT" /\ resp.status = HTTP_400_BAD_REQUEST
    /\ req.id \in DOMAIN db
    /\ Len(product) = 1
    /\ product[1].name = req.body.name
    /\ db[req.id].name # req.body.name

====
